---- MODULE Spec2Model ----
(***************************************************************************)
(* Model of the case-mapping table generators tools/genlower.py and        *)
(* tools/genupper.py of pystd.  A process is one execution of one of the   *)
(* two scripts.  The host (the Python interpreter) supplies chr() and the  *)
(* str.lower()/str.upper() method; both are fixed functions chosen when    *)
(* the behaviour starts.  The code point range [0, 0x110000) and the ASCII *)
(* boundary 128 are scaled down to [0, NumCP) and AsciiEnd.                *)
(*                                                                         *)
(* A character is the record [cp |-> n]; a string is a sequence of         *)
(* characters; a printed line is [text |-> template, nums |-> the integers *)
(* interpolated into it].                                                  *)
(***************************************************************************)
EXTENDS Integers, Sequences, FiniteSets, TLC

\* scaled range(0x110000): code points are 0 .. NumCP-1
NumCP == 3
\* scaled 128: first code point of the single-entry pass
AsciiEnd == 1
\* longest string the host case mapping is allowed to return in the model
MaxMapLen == 4
\* `while len(entry) < 3`
Slots == 3

CP == 0 .. (NumCP - 1)
Scripts == {"genlower", "genupper"}

VARIABLES
    script,      \* script[r]: which of the two files process r executes
    hostChr,     \* hostChr[n]: what chr(n) returns on this host
    hostCase,    \* hostCase[n]: what chr(n).lower() / chr(n).upper() returns
    pc,          \* pc[r]: position of process r in the script
    i,           \* i[r]: next value of the running range() loop
    k,           \* k[r]: index of the next table element to print
    multichars,  \* multichars[r]: list of (i, upstring)
    diffs,       \* diffs[r]: list of (i, ord(upstring))
    out,         \* out[r]: lines written to standard output so far
    visits       \* visits[r]: code points each pass has executed its body for

vars == <<script, hostChr, hostCase, pc, i, k, multichars, diffs, out, visits>>

Procs == DOMAIN pc

Char(n) == [cp |-> n]

\* ---------------------------------------------------------------- host ---

\* a host whose chr() is sound returns one character; a narrow-Unicode host
\* returns a two-unit string for the code points in W
ChrHost(W) == [n \in CP |-> IF n \in W THEN <<Char(n), Char(n)>> ELSE <<Char(n)>>]

ChrHosts == {ChrHost(W) : W \in {{}} \cup {{c} : c \in CP}}

\* an expansion of n characters, none of them the zero code point
Expansion(n) == [j \in 1 .. n |-> Char((j % (NumCP - 1)) + 1)]

\* the strings the case mapping may return for code point n: itself, one
\* other character, or a string of any length but one up to MaxMapLen
CaseResults(n) ==
    {<<Char(n)>>, <<Char((n + 1) % NumCP)>>}
        \cup {Expansion(len) : len \in (0 .. MaxMapLen) \ {1}}

CaseHosts == {f \in [CP -> UNION {CaseResults(n) : n \in CP}] :
                 \A n \in CP : f[n] \in CaseResults(n)}

\* chr(i)
Chr(n) == hostChr[n]

\* ord(c) for a string of one character
Ord(string) == string[1].cp

\* string.lower() in genlower.py, string.upper() in genupper.py, for a
\* string of one character
CaseOf(string) == hostCase[Ord(string)]

\* ------------------------------------------------------------ printing ---

Names(s) ==
    IF s = "genlower"
    THEN [defineMulti  |-> "#define NUM_LOWERCASING_MULTICHAR_ENTRIES",
          declMulti    |-> "const UnicodeConversionMultiChar lowercasing_multi[NUM_LOWERCASING_MULTICHAR_ENTRIES] = {",
          defineSingle |-> "#define NUM_LOWERCASING_SINGLE_ENTRIES",
          declSingle   |-> "const UnicodeConversionSingleChar lowercasing_single[NUM_LOWERCASING_SINGLE_ENTRIES] = {"]
    ELSE [defineMulti  |-> "#define NUM_UPPERCASING_MULTICHAR_ENTRIES",
          declMulti    |-> "const UnicodeConversionMultiChar uppercasing_multi[NUM_UPPERCASING_MULTICHAR_ENTRIES] = {",
          defineSingle |-> "#define NUM_UPPERCASING_SINGLE_ENTRIES",
          declSingle   |-> "const UnicodeConversionSingleChar uppercasing_single[NUM_UPPERCASING_SINGLE_ENTRIES] = {"]

Line(text, nums) == [text |-> text, nums |-> nums]

MultiEntryText == "    {%d, {%d, ...}},"
SingleEntryText == "    {%d, %d},"
CloseText == "};"

\* [ord(c) for c in upstring]
Ords(upstring) == [j \in 1 .. Len(upstring) |-> upstring[j].cp]

\* while len(entry) < 3: entry.append(0)
RECURSIVE PadEntry(_)
PadEntry(entry) ==
    IF Len(entry) < Slots THEN PadEntry(Append(entry, 0)) ELSE entry

\* the line printed for one element of multichars
MultiLine(n, upstring) == Line(MultiEntryText, <<n>> \o PadEntry(Ords(upstring)))

\* the line printed for one element of diffs
SingleLine(from_cp, to_cp) == Line(SingleEntryText, <<from_cp, to_cp>>)

\* ------------------------------------------------------------- the scan ---

IsMultiLonger(upstring) == Len(upstring) > 1

\* `if len(upstring) != 1`
IsMulti(upstring) == Len(upstring) # 1

IsDiffAny(string, upstring) == Len(upstring) = 1

\* `if len(upstring) == 1: if upstring != string`
IsDiff(string, upstring) == Len(upstring) = 1 /\ upstring # string

\* range(0x110000) starts at 0
MultiFirst == 0

SingleFirstZero == MultiFirst

\* range(128, 0x110000) starts at the end of ASCII
SingleFirst == AsciiEnd

RangeSkip(n) == n + 2

\* range() yields consecutive integers
RangeNext(n) == n + 1

RecordFront(list, elem) == <<elem>> \o list

\* list.append(elem)
Record(list, elem) == Append(list, elem)

SingleCountWrongList(r) == Len(multichars[r])

\* len(diffs) in the single table's size macro
SingleCount(r) == Len(diffs[r])

\* len(multichars) in the multi table's size macro
MultiCount(r) == Len(multichars[r])

Visit(r, pass) == [visits EXCEPT ![r][pass] = Append(@, i[r])]

InitOf(procs) ==
    /\ script \in [procs -> Scripts]
    /\ hostChr \in ChrHosts
    /\ hostCase \in CaseHosts
    /\ pc = [r \in procs |-> "start"]
    /\ i = [r \in procs |-> 0]
    /\ k = [r \in procs |-> 0]
    /\ multichars = [r \in procs |-> <<>>]
    /\ diffs = [r \in procs |-> <<>>]
    /\ out = [r \in procs |-> <<>>]
    /\ visits = [r \in procs |-> [multi |-> <<>>, single |-> <<>>]]

\* one execution of one script
Init == InitOf({1})

\* two executions side by side on the same host; the process identities are
\* interchangeable, so of the two mixed pairs only (genlower, genupper) is kept
InitPair ==
    /\ InitOf({1, 2})
    /\ ~(script[1] = "genupper" /\ script[2] = "genlower")

\* print('Multiple chars.'); multichars = []
PrintLabel(r) ==
    /\ pc[r] = "start"
    /\ out' = [out EXCEPT ![r] = Append(@, Line("Multiple chars.", <<>>))]
    /\ multichars' = [multichars EXCEPT ![r] = <<>>]
    /\ i' = [i EXCEPT ![r] = MultiFirst]
    /\ pc' = [pc EXCEPT ![r] = "multi_scan"]
    /\ UNCHANGED <<script, hostChr, hostCase, k, diffs, visits>>

\* one iteration of the first loop
ScanMulti(r) ==
    /\ pc[r] = "multi_scan"
    /\ i[r] < NumCP
    /\ LET string == Chr(i[r]) IN
         /\ Len(string) = 1
         /\ LET upstring == CaseOf(string) IN
              multichars' = [multichars EXCEPT ![r] =
                  IF IsMulti(upstring) THEN Record(@, <<i[r], upstring>>) ELSE @]
    /\ visits' = Visit(r, "multi")
    /\ i' = [i EXCEPT ![r] = RangeNext(@)]
    /\ UNCHANGED <<script, hostChr, hostCase, pc, k, diffs, out>>

\* assert(len(string) == 1) fails in either loop: the process dies
AssertFail(r) ==
    /\ pc[r] \in {"multi_scan", "single_scan"}
    /\ i[r] < NumCP
    /\ Len(Chr(i[r])) # 1
    /\ visits' = Visit(r, IF pc[r] = "multi_scan" THEN "multi" ELSE "single")
    /\ pc' = [pc EXCEPT ![r] = "failed"]
    /\ UNCHANGED <<script, hostChr, hostCase, i, k, multichars, diffs, out>>

\* the three prints between the first loop and the multi table's elements
EmitMultiHeader(r) ==
    /\ pc[r] = "multi_scan"
    /\ i[r] >= NumCP
    /\ out' = [out EXCEPT ![r] = @ \o
           <<Line("// clang-format off", <<>>),
             Line(Names(script[r]).defineMulti, <<MultiCount(r)>>),
             Line(Names(script[r]).declMulti, <<>>)>>]
    /\ k' = [k EXCEPT ![r] = 1]
    /\ pc' = [pc EXCEPT ![r] = "multi_emit"]
    /\ UNCHANGED <<script, hostChr, hostCase, i, multichars, diffs, visits>>

\* the elements of multichars printed in an unspecified order
EmitMultiEntryAnyOrder(r) ==
    /\ pc[r] = "multi_emit"
    /\ k[r] <= Len(multichars[r])
    /\ \E j \in 1 .. Len(multichars[r]) :
           out' = [out EXCEPT ![r] =
               Append(@, MultiLine(multichars[r][j][1], multichars[r][j][2]))]
    /\ k' = [k EXCEPT ![r] = @ + 1]
    /\ UNCHANGED <<script, hostChr, hostCase, pc, i, multichars, diffs, visits>>

\* one iteration of `for i, upstring in multichars`
EmitMultiEntry(r) ==
    /\ pc[r] = "multi_emit"
    /\ k[r] <= Len(multichars[r])
    /\ out' = [out EXCEPT ![r] =
           Append(@, MultiLine(multichars[r][k[r]][1], multichars[r][k[r]][2]))]
    /\ k' = [k EXCEPT ![r] = @ + 1]
    /\ UNCHANGED <<script, hostChr, hostCase, pc, i, multichars, diffs, visits>>

\* the prints that close the multi table and open the second part; diffs = []
EmitMultiFooter(r) ==
    /\ pc[r] = "multi_emit"
    /\ k[r] > Len(multichars[r])
    /\ out' = [out EXCEPT ![r] = @ \o
           <<Line(CloseText, <<>>),
             Line("// clang-format on", <<>>),
             Line("\nDifferences", <<>>),
             Line("// clang-format off", <<>>)>>]
    /\ diffs' = [diffs EXCEPT ![r] = <<>>]
    /\ i' = [i EXCEPT ![r] = SingleFirst]
    /\ pc' = [pc EXCEPT ![r] = "single_scan"]
    /\ UNCHANGED <<script, hostChr, hostCase, k, multichars, visits>>

\* the second loop with the inner `if` missing from genupper.py only
ScanSingleDrifted(r) ==
    /\ pc[r] = "single_scan"
    /\ i[r] < NumCP
    /\ LET string == Chr(i[r]) IN
         /\ Len(string) = 1
         /\ LET upstring == CaseOf(string) IN
              diffs' = [diffs EXCEPT ![r] =
                  IF IF script[r] = "genupper" THEN IsDiffAny(string, upstring)
                                               ELSE IsDiff(string, upstring)
                  THEN Record(@, <<i[r], Ord(upstring)>>) ELSE @]
    /\ visits' = Visit(r, "single")
    /\ i' = [i EXCEPT ![r] = RangeNext(@)]
    /\ UNCHANGED <<script, hostChr, hostCase, pc, k, multichars, out>>

\* one iteration of the second loop
ScanSingle(r) ==
    /\ pc[r] = "single_scan"
    /\ i[r] < NumCP
    /\ LET string == Chr(i[r]) IN
         /\ Len(string) = 1
         /\ LET upstring == CaseOf(string) IN
              diffs' = [diffs EXCEPT ![r] =
                  IF IsDiff(string, upstring)
                  THEN Record(@, <<i[r], Ord(upstring)>>) ELSE @]
    /\ visits' = Visit(r, "single")
    /\ i' = [i EXCEPT ![r] = RangeNext(@)]
    /\ UNCHANGED <<script, hostChr, hostCase, pc, k, multichars, out>>

\* the two prints between the second loop and the single table's elements
EmitSingleHeader(r) ==
    /\ pc[r] = "single_scan"
    /\ i[r] >= NumCP
    /\ out' = [out EXCEPT ![r] = @ \o
           <<Line(Names(script[r]).defineSingle, <<SingleCount(r)>>),
             Line(Names(script[r]).declSingle, <<>>)>>]
    /\ k' = [k EXCEPT ![r] = 1]
    /\ pc' = [pc EXCEPT ![r] = "single_emit"]
    /\ UNCHANGED <<script, hostChr, hostCase, i, multichars, diffs, visits>>

\* one iteration of `for from_cp, to_cp in diffs`
EmitSingleEntry(r) ==
    /\ pc[r] = "single_emit"
    /\ k[r] <= Len(diffs[r])
    /\ out' = [out EXCEPT ![r] =
           Append(@, SingleLine(diffs[r][k[r]][1], diffs[r][k[r]][2]))]
    /\ k' = [k EXCEPT ![r] = @ + 1]
    /\ UNCHANGED <<script, hostChr, hostCase, pc, i, multichars, diffs, visits>>

\* the last two prints; the script ends
EmitSingleFooter(r) ==
    /\ pc[r] = "single_emit"
    /\ k[r] > Len(diffs[r])
    /\ out' = [out EXCEPT ![r] = @ \o
           <<Line(CloseText, <<>>), Line("// clang-format on", <<>>)>>]
    /\ pc' = [pc EXCEPT ![r] = "done"]
    /\ UNCHANGED <<script, hostChr, hostCase, i, k, multichars, diffs, visits>>

Next ==
    \/ \E r \in Procs : PrintLabel(r)
    \/ \E r \in Procs : ScanMulti(r)
    \/ \E r \in Procs : AssertFail(r)
    \/ \E r \in Procs : EmitMultiHeader(r)
    \/ \E r \in Procs : EmitMultiEntry(r)
    \/ \E r \in Procs : EmitMultiFooter(r)
    \/ \E r \in Procs : ScanSingle(r)
    \/ \E r \in Procs : EmitSingleHeader(r)
    \/ \E r \in Procs : EmitSingleEntry(r)
    \/ \E r \in Procs : EmitSingleFooter(r)

Spec == Init /\ [][Next]_vars

\* the interpreter keeps executing a script until it ends or dies
FairSpec == Init /\ [][Next]_vars /\ WF_vars(Next)

SpecPair == InitPair /\ [][Next]_vars

\* ------------------------------------------------------------ the tables ---

\* code point n is the `from` of an element of the list
InList(n, list) == \E j \in 1 .. Len(list) : list[j][1] = n

\* the lines of o printed from the template text, in output order
LinesOf(o, text) == SelectSeq(o, LAMBDA l : l.text = text)

\* the `from` code points of the entry lines of o printed from text
EmittedFroms(o, text) ==
    LET ls == LinesOf(o, text) IN [j \in 1 .. Len(ls) |-> ls[j].nums[1]]

StrictlyIncreasing(seq) == \A j \in 1 .. (Len(seq) - 1) : seq[j] < seq[j + 1]

Elements(seq) == {seq[j] : j \in 1 .. Len(seq)}

\* the number of consecutive lines of o from position p on printed from text
RECURSIVE RunLen(_, _, _)
RunLen(o, p, text) ==
    IF p <= Len(o) /\ o[p].text = text THEN 1 + RunLen(o, p + 1, text) ELSE 0

\* the reference classifier over the host mapping
RefMulti == {<<n, hostCase[n]>> : n \in {c \in CP : Len(hostCase[c]) # 1}}

RefSingle == {<<n, hostCase[n][1].cp>> :
                 n \in {c \in CP : /\ c >= AsciiEnd
                                   /\ Len(hostCase[c]) = 1
                                   /\ hostCase[c][1].cp # c}}

SelfMapping(n) == hostCase[n] = <<Char(n)>>

\* C1 as stated: after a complete run no code point is in both tables and
\* the code points in neither table are exactly those that map to themselves
C1_Original ==
    \A r \in Procs : pc[r] = "done" =>
        \A n \in CP :
            /\ ~(InList(n, multichars[r]) /\ InList(n, diffs[r]))
            /\ (~InList(n, multichars[r]) /\ ~InList(n, diffs[r])) <=> SelfMapping(n)

\* C1 amended: after a complete run no code point is in both tables and the
\* code points in neither table are exactly those that map to themselves or
\* lie below the ASCII boundary and map to a single code point
C1_Coverage ==
    \A r \in Procs : pc[r] = "done" =>
        \A n \in CP :
            /\ ~(InList(n, multichars[r]) /\ InList(n, diffs[r]))
            /\ (~InList(n, multichars[r]) /\ ~InList(n, diffs[r]))
                   <=> (SelfMapping(n) \/ (n < AsciiEnd /\ Len(hostCase[n]) = 1))

C1_Witness ==
    \E r \in Procs :
        /\ pc[r] = "done"
        /\ \E n \in CP : n < AsciiEnd /\ Len(hostCase[n]) = 1 /\ ~SelfMapping(n)
                          /\ ~InList(n, multichars[r]) /\ ~InList(n, diffs[r])
        /\ Len(diffs[r]) > 0
        /\ Len(multichars[r]) > 0

\* C2: every element (from, to) of diffs, in every state, has from # to and
\* from at or above the ASCII boundary, and so has every single entry printed
C2_SingleEntries ==
    \A r \in Procs :
        /\ \A j \in 1 .. Len(diffs[r]) :
               diffs[r][j][1] # diffs[r][j][2] /\ diffs[r][j][1] >= AsciiEnd
        /\ \A l \in Elements(LinesOf(out[r], SingleEntryText)) :
               l.nums[1] # l.nums[2] /\ l.nums[1] >= AsciiEnd

C2_Witness ==
    \E r \in Procs : pc[r] = "single_scan" /\ i[r] < NumCP /\ Len(diffs[r]) > 0

\* C3 as stated: every multi entry printed comes from a mapping of length 2
\* or 3, has exactly three output slots, the first of them the mapping's code
\* points in order and the others zero
C3_Original ==
    \A r \in Procs :
        \A l \in Elements(LinesOf(out[r], MultiEntryText)) :
            LET m == hostCase[l.nums[1]] IN
                /\ Len(m) \in {2, 3}
                /\ Len(l.nums) = 1 + Slots
                /\ \A j \in 1 .. Slots :
                       l.nums[1 + j] = IF j <= Len(m) THEN m[j].cp ELSE 0

\* C4 as stated: a process that died on the assertion has written nothing
C4_Original ==
    \A r \in Procs : pc[r] = "failed" => out[r] = <<>>

\* C5: the value printed in each size macro equals the number of entry
\* lines between the declaration that follows it and the closing line
C5_CountMatches ==
    \A r \in Procs :
        \A p \in 1 .. Len(out[r]) :
            /\ out[r][p].text = Names(script[r]).defineMulti
                   => LET n == RunLen(out[r], p + 2, MultiEntryText) IN
                          /\ p + 1 <= Len(out[r])
                                 => out[r][p + 1].text = Names(script[r]).declMulti
                          /\ n <= out[r][p].nums[1]
                          /\ p + 2 + n <= Len(out[r])
                                 => /\ out[r][p + 2 + n].text = CloseText
                                    /\ n = out[r][p].nums[1]
            /\ out[r][p].text = Names(script[r]).defineSingle
                   => LET n == RunLen(out[r], p + 2, SingleEntryText) IN
                          /\ p + 1 <= Len(out[r])
                                 => out[r][p + 1].text = Names(script[r]).declSingle
                          /\ n <= out[r][p].nums[1]
                          /\ p + 2 + n <= Len(out[r])
                                 => /\ out[r][p + 2 + n].text = CloseText
                                    /\ n = out[r][p].nums[1]

C5_Witness ==
    \E r \in Procs :
        /\ pc[r] = "done"
        /\ Len(LinesOf(out[r], MultiEntryText)) = 2
        /\ Len(LinesOf(out[r], SingleEntryText)) = 1
        /\ Len(LinesOf(out[r], CloseText)) = 2

\* C6: multichars and diffs, in every state, and the entry lines printed for
\* each table are strictly increasing by their from code point
C6_Ascending ==
    \A r \in Procs :
        /\ StrictlyIncreasing([j \in 1 .. Len(multichars[r]) |-> multichars[r][j][1]])
        /\ StrictlyIncreasing([j \in 1 .. Len(diffs[r]) |-> diffs[r][j][1]])
        /\ StrictlyIncreasing(EmittedFroms(out[r], MultiEntryText))
        /\ StrictlyIncreasing(EmittedFroms(out[r], SingleEntryText))

C6_Witness ==
    \E r \in Procs :
        /\ pc[r] = "done"
        /\ Len(EmittedFroms(out[r], SingleEntryText)) >= 2
        /\ Len(EmittedFroms(out[r], MultiEntryText)) >= 1

\* C7: after a complete run the multi table holds exactly the code points
\* whose mapping is not one code point long, each with its mapping, and the
\* single table exactly the pairs (n, m(n)) at or above the ASCII boundary
\* whose mapping is one code point other than n
C7_Classifier ==
    \A r \in Procs : pc[r] = "done" =>
        /\ Elements(multichars[r]) = RefMulti
        /\ Len(multichars[r]) = Cardinality(RefMulti)
        /\ Elements(diffs[r]) = RefSingle
        /\ Len(diffs[r]) = Cardinality(RefSingle)
        /\ Elements(EmittedFroms(out[r], MultiEntryText)) = {e[1] : e \in RefMulti}
        /\ {<<l.nums[1], l.nums[2]>> : l \in Elements(LinesOf(out[r], SingleEntryText))}
               = RefSingle
        /\ \A n \in CP :
               /\ Len(hostCase[n]) > 1
                      => InList(n, multichars[r]) /\ ~InList(n, diffs[r])
               /\ SelfMapping(n)
                      => ~InList(n, multichars[r]) /\ ~InList(n, diffs[r])

C7_Witness ==
    \E r \in Procs :
        /\ pc[r] = "done"
        /\ \E n \in CP : Len(hostCase[n]) > 1 /\ InList(n, multichars[r])
        /\ \E n \in CP : SelfMapping(n) /\ n >= AsciiEnd
        /\ Len(diffs[r]) > 0

\* the code points lo .. NumCP-1 in ascending order
Ascending(lo) == [j \in 1 .. (NumCP - lo) |-> lo + j - 1]

IsPrefix(a, b) == Len(a) <= Len(b) /\ \A j \in 1 .. Len(a) : a[j] = b[j]

\* chr() returns one character for every code point
ChrSound == \A n \in CP : Len(hostChr[n]) = 1

\* C8: each pass executes its body for the code points of its range in
\* ascending order without a gap or a repeat, a process that ends has covered
\* both ranges whole and printed both tables, and when no assertion can fail
\* every process ends
C8_Visits ==
    /\ [](\A r \in Procs :
             /\ IsPrefix(visits[r].multi, Ascending(MultiFirst))
             /\ IsPrefix(visits[r].single, Ascending(AsciiEnd))
             /\ pc[r] = "done" =>
                    /\ visits[r].multi = Ascending(MultiFirst)
                    /\ visits[r].single = Ascending(AsciiEnd)
                    /\ Len(LinesOf(out[r], Names(script[r]).declMulti)) = 1
                    /\ Len(LinesOf(out[r], Names(script[r]).declSingle)) = 1
                    /\ Len(LinesOf(out[r], CloseText)) = 2)
    /\ <>(\A r \in Procs : pc[r] = "done" \/ (pc[r] = "failed" /\ ~ChrSound))

C8_Witness ==
    \E r \in Procs :
        /\ pc[r] = "done"
        /\ visits[r].multi = Ascending(0)
        /\ visits[r].single = Ascending(AsciiEnd)
        /\ Len(visits[r].single) >= 2

\* C9: of two executions of the same script on the same host, the output of
\* one is at every moment a prefix of the output of the other, and the two
\* complete outputs are equal
C9_Deterministic ==
    \A r1, r2 \in Procs : (r1 < r2 /\ script[r1] = script[r2]) =>
        /\ IsPrefix(out[r1], out[r2]) \/ IsPrefix(out[r2], out[r1])
        /\ (pc[r1] = pc[r2] /\ i[r1] = i[r2] /\ k[r1] = k[r2]) => out[r1] = out[r2]

C9_Witness ==
    \E r1, r2 \in Procs :
        /\ r1 < r2
        /\ script[r1] = script[r2]
        /\ pc[r1] = "done" /\ pc[r2] = "done"
        /\ Len(LinesOf(out[r1], MultiEntryText)) >= 2
        /\ Len(LinesOf(out[r1], SingleEntryText)) >= 1
        /\ out[r1] = out[r2]

\* a line with the table and macro names of script s taken out
Unnamed(s, l) ==
    [kind |-> CASE l.text = Names(s).defineMulti -> "defineMulti"
                [] l.text = Names(s).declMulti -> "declMulti"
                [] l.text = Names(s).defineSingle -> "defineSingle"
                [] l.text = Names(s).declSingle -> "declSingle"
                [] OTHER -> l.text,
     nums |-> l.nums]

UnnamedOut(r) == [j \in 1 .. Len(out[r]) |-> Unnamed(script[r], out[r][j])]

Local(r) == <<pc[r], i[r], k[r], multichars[r], diffs[r], out[r], visits[r]>>

\* C10: two executions on the same host that stand at the same place of
\* their scripts, whichever scripts these are, hold the same multichars and
\* diffs and have printed the same lines up to the table and macro names, and
\* a step of one execution changes nothing of the other
C10_SameRoutine ==
    /\ [](\A r1, r2 \in Procs :
             (r1 < r2 /\ pc[r1] = pc[r2] /\ i[r1] = i[r2] /\ k[r1] = k[r2]) =>
                 /\ multichars[r1] = multichars[r2]
                 /\ diffs[r1] = diffs[r2]
                 /\ UnnamedOut(r1) = UnnamedOut(r2))
    /\ [][\E r \in Procs : \A q \in Procs \ {r} : Local(q)' = Local(q)]_vars

C10_Witness ==
    \E r1, r2 \in Procs :
        /\ script[r1] = "genlower" /\ script[r2] = "genupper"
        /\ pc[r1] = "done" /\ pc[r2] = "done"
        /\ Len(multichars[r1]) >= 1
        /\ Len(diffs[r1]) >= 2
        /\ out[r1] # out[r2]
        /\ UnnamedOut(r1) = UnnamedOut(r2)

TypeOK ==
    /\ \A r \in Procs : pc[r] \in {"start", "multi_scan", "multi_emit",
                                   "single_scan", "single_emit", "done", "failed"}
    /\ \A r \in Procs : i[r] \in 0 .. NumCP
====
